---- MODULE Spec2Model ----
(***************************************************************************)
(* Publish ordering of the crates of a repo (src/repo.ts,                  *)
(* getCratesPublishOrder) and the release task that consumes it.           *)
(***************************************************************************)
EXTENDS Integers, Sequences, FiniteSets, TLC

\* ------------------------------------------------------------------------
\* Bounds of the model
\* ------------------------------------------------------------------------

\* Dependency declarations in the whole workspace.
MaxDeps == 3

\* Invocations of Repo.getCratesPublishOrder in one behaviour.
MaxCalls == 2

\* Dependency declarations in the workspace of a run of the release task.
MaxReleaseDeps == 2

\* Manifest edits started in one behaviour.
MaxEdits == 2

\* Calls of addCrate, loadCrates and loadCrateInSubDir in one behaviour.
MaxLoads == 3

\* Arguments on the command line of a script.
MaxArgs == 3

\* Dependencies declared in a workspace whose edges are walked.
MaxEdgeDeps == 2

\* Calls of getMetadata on one CratesIoCache.
MaxLookups == 3

\* Tags of a repo.
MaxTags == 3

\* count: 5 of the retries around cargo publish
RetryCount == 5

\* The package names of the workspaces that are explored.
Names == {"core", "core-dev-tools", "app"}

\* CargoDependencyMetadata.kind: "dev" | null
Kinds == {"dev", "null"}

\* The version of the crates of the workspace, and an earlier one.
CurrentVersion == "0.2.0"
PreviousVersion == "0.1.0"

\* cliArgs.crate when no crate name was given
NoArg == ""

\* The path of the Cargo.toml of the repo folder; the manifest of any other
\* crate is named by the crate.
RootManifest == "Cargo.toml"
Paths == Names \cup {RootManifest}

\* immediateDependenciesInRepo was not called.
NoEdges == [crate |-> NoArg, deps |-> <<>>]

\* Map.prototype.get of a key the map does not have.
Absent == [kind |-> "undefined", versions |-> {}]

\* getCliArgs was not called.
NotParsed ==
  [script |-> "none", threw |-> FALSE, crate |-> NoArg, publish |-> FALSE,
   release |-> TRUE, kind |-> "patch"]

\* A file that does not exist.
Missing == [version |-> "", patches |-> <<>>, exists |-> FALSE]

VARIABLES
  crates,        \* Repo.#crates: sequence of [name, dependencies]
  pc,            \* position of the caller of getCratesPublishOrder
  pos,           \* crates of the input consumed by the for loop
  sortedCrates,  \* the local sortedCrates of getCratesPublishOrder
  outcomes,      \* outcome of each finished invocation, oldest first
  cliArgs,       \* release task: [publish, release, crate]
  task,          \* release task: position in the script
  publishOrder,  \* release task: the crates the publish loop iterates
  orderPos,      \* release task: crates the publish loop has finished
  attempt,       \* Crate.publish: failed attempts of the running call
  registry,      \* crates.io: per name, whether a record exists, its versions
  tag,           \* the version tag: "unknown", "exists", "created", "pushed"
  released,      \* whether the GitHub release was created
  publishCalls,  \* the crates publish() was called on, oldest first
  publishResult, \* how the last publish() ended: "false", "true", "threw"
  rootCrate,     \* the crate whose manifest is the root Cargo.toml, or NoArg
  files,         \* text of each manifest file, Missing when it does not exist
  isUpdatingManifest,      \* Crate.#isUpdatingManifest of each crate
  isUpdatingRootManifest,  \* Crate.#isUpdatingRootManifest of each crate
  edits,         \* the manifest edits that were started, oldest first
  loads,         \* calls of addCrate, loadCrates and loadCrateInSubDir so far
  loadCall,      \* the last of these calls: [op, name]
  loadResult,    \* how it ended: "ok" or the error it threw
  argv,          \* Deno.args of a script
  parsed,        \* what getCliArgs of a script made of it
  pending,       \* packages of the workspace that are not yet in the repo
  edges,         \* last result of immediateDependenciesInRepo: [crate, deps]
  walk,          \* descendantDependenciesInRepo: [pc, from]
  stack,         \* its local stack, as crate names
  visited,       \* its local map crates, as crate names in insertion order
  metaDataCache, \* CratesIoCache.#metaDataCache
  lookups,       \* the getMetadata calls made on the cache, in order
  gitTags,       \* GitTags.#tags
  previousTag    \* the last call of getPreviousVersionTag and its result

orderVars == <<pc, pos, sortedCrates, outcomes>>
releaseVars ==
  <<cliArgs, task, publishOrder, orderPos, attempt, registry, tag, released,
    publishCalls, publishResult>>
manifestVars ==
  <<rootCrate, files, isUpdatingManifest, isUpdatingRootManifest, edits>>
loadVars == <<loads, loadCall, loadResult>>
argVars == <<argv, parsed>>
depVars == <<pending, edges, walk, stack, visited>>
cacheVars == <<metaDataCache, lookups>>
tagVars == <<gitTags, previousTag>>
restVars == <<manifestVars, loadVars, argVars, depVars, cacheVars, tagVars>>
vars == <<crates, orderVars, releaseVars, restVars>>

\* ------------------------------------------------------------------------
\* Helpers on sequences
\* ------------------------------------------------------------------------

Range(s) == {s[i] : i \in 1..Len(s)}

\* crates.find((c) => c.name === name): the first crate with the name, as a
\* sequence of length 0 (undefined) or 1.
RECURSIVE FindCrate(_, _)
FindCrate(s, name) ==
  IF s = <<>> THEN <<>>
  ELSE IF Head(s).name = name THEN <<Head(s)>>
  ELSE FindCrate(Tail(s), name)

\* deps.find((d) => d.crate.name === name): the first CrateDep on the name,
\* as a sequence of length 0 (undefined) or 1.
FindLastDep(s, name) ==
  LET at == {i \in 1..Len(s) : s[i].crate = name}
  IN  IF at = {} THEN <<>>
      ELSE <<s[CHOOSE i \in at : \A j \in at : j <= i]>>

RECURSIVE FindDep(_, _)
FindDep(s, name) ==
  IF s = <<>> THEN <<>>
  ELSE IF Head(s).crate = name THEN <<Head(s)>>
  ELSE FindDep(Tail(s), name)

\* Array.prototype.splice(insertPos, deleteCount, item), with insertPos
\* counted from 0 as in the source.
SpliceDeleting(s, insertPos, deleteCount, item) ==
  SubSeq(s, 1, insertPos) \o <<item>>
    \o SubSeq(s, insertPos + deleteCount + 1, Len(s))

SpliceOverwrite(s, insertPos, item) == SpliceDeleting(s, insertPos, 1, item)

\* sortedCrates.splice(insertPos, 0, { crate, deps })
Splice(s, insertPos, item) == SpliceDeleting(s, insertPos, 0, item)

\* ------------------------------------------------------------------------
\* Crate
\* ------------------------------------------------------------------------

\* Crate.immediateDependenciesInRepo: one CrateDep per declared dependency
\* whose name is a crate of the repo, in declaration order.
RECURSIVE ImmediateDependenciesInRepo(_, _)
ImmediateDependenciesInRepo(repoCrates, dependencies) ==
  IF dependencies = <<>> THEN <<>>
  ELSE LET dependency == Head(dependencies)
           crate == FindCrate(repoCrates, dependency.name)
           rest == ImmediateDependenciesInRepo(repoCrates, Tail(dependencies))
       IN  IF crate # <<>>
           THEN <<[isDev |-> (dependency.kind = "dev"),
                   crate |-> crate[1].name]>> \o rest
           ELSE rest

\* ------------------------------------------------------------------------
\* getCratesPublishOrder
\* ------------------------------------------------------------------------

\* The three ways one iteration of the scan of getInsertPosition ends.
\* crateItemDep is the edge of the placed item to the inserted crate, depB
\* the edge back.
IsCircularNormalOnly(crateItemDep, depB) ==
  depB # <<>> /\ ~crateItemDep[1].isDev /\ ~depB[1].isDev

\* crateItemDep.isDev === depB?.isDev
IsCircular(crateItemDep, depB) ==
  depB # <<>> /\ crateItemDep[1].isDev = depB[1].isDev

InsertsBeforeNormalOnly(crateItemDep, depB) ==
  ~crateItemDep[1].isDev

\* depB == null || !crateItemDep.isDev
InsertsBefore(crateItemDep, depB) ==
  depB = <<>> \/ ~crateItemDep[1].isDev

\* getInsertPosition, scanning sorted from the 0-based index i.
RECURSIVE ScanFrom(_, _, _, _)
ScanFrom(sorted, i, crateName, crateDeps) ==
  IF i >= Len(sorted)
  THEN [threw |-> FALSE, insertPos |-> Len(sorted), item |-> ""]
  ELSE LET item == sorted[i + 1]
           crateItemDep == FindDep(item.deps, crateName)
           depB == FindDep(crateDeps, item.crate)
       IN  IF crateItemDep # <<>>
           THEN IF IsCircular(crateItemDep, depB)
                THEN [threw |-> TRUE, insertPos |-> i, item |-> item.crate]
                ELSE IF InsertsBefore(crateItemDep, depB)
                     THEN [threw |-> FALSE, insertPos |-> i, item |-> ""]
                     ELSE ScanFrom(sorted, i + 1, crateName, crateDeps)
           ELSE ScanFrom(sorted, i + 1, crateName, crateDeps)

GetInsertPosition(sorted, crateName, crateDeps) ==
  ScanFrom(sorted, 0, crateName, crateDeps)

CrateNames(s) == [i \in 1..Len(s) |-> s[i].crate]

Returned(order) == [ok |-> TRUE, order |-> order, crate |-> "", item |-> ""]
Circular(crate, item) ==
  [ok |-> FALSE, order |-> <<>>, crate |-> crate, item |-> item]

\* The for loop of getCratesPublishOrder from input position k (0-based)
\* with the given sortedCrates, up to its return or its throw.
RECURSIVE PublishOrderFrom(_, _, _, _)
PublishOrderFrom(repoCrates, input, k, sorted) ==
  IF k >= Len(input) THEN Returned(CrateNames(sorted))
  ELSE LET crate == input[k + 1]
           deps == ImmediateDependenciesInRepo(repoCrates, crate.dependencies)
           ins == GetInsertPosition(sorted, crate.name, deps)
       IN  IF ins.threw THEN Circular(crate.name, ins.item)
           ELSE PublishOrderFrom(repoCrates, input, k + 1,
                  Splice(sorted, ins.insertPos,
                         [crate |-> crate.name, deps |-> deps]))

\* Repo.getCratesPublishOrder(): the function applied to the repo's crates.
GetCratesPublishOrder(repoCrates) ==
  PublishOrderFrom(repoCrates, repoCrates, 0, <<>>)

\* ------------------------------------------------------------------------
\* Workspaces
\* ------------------------------------------------------------------------

\* The sequences without repetition over the names of S.
RECURSIVE Perms(_)
Perms(S) ==
  IF S = {} THEN {<<>>}
  ELSE UNION {{<<x>> \o p : p \in Perms(S \ {x})} : x \in S}

\* Repo.#crates holds distinct names (Repo.addCrate), in any order.
MemberOrders == UNION {Perms(S) : S \in (SUBSET Names) \ {{}}}

\* The declarations a member may make: any other name, of either kind.  A
\* name that is not a member is a dependency from outside the workspace.
Declarations(members) ==
  {d \in [owner : members, name : Names, kind : Kinds] : d.owner # d.name}

RECURSIVE DependenciesOf(_, _)
DependenciesOf(decls, owner) ==
  IF decls = <<>> THEN <<>>
  ELSE LET d == Head(decls)
           rest == DependenciesOf(Tail(decls), owner)
       IN  IF d.owner = owner
           THEN <<[name |-> d.name, kind |-> d.kind]>> \o rest
           ELSE rest

Workspace(order, decls) ==
  [i \in 1..Len(order) |->
     [name |-> order[i],
      version |-> CurrentVersion,
      dependencies |-> DependenciesOf(decls, order[i])]]

\* ws is a workspace with at most maxDeps dependency declarations.
IsWorkspace(ws, maxDeps) ==
  \E order \in MemberOrders :
    \E j \in 0..maxDeps :
      \E decls \in [1..j -> Declarations(Range(order))] :
        ws = Workspace(order, decls)

\* ------------------------------------------------------------------------
\* Invocations of Repo.getCratesPublishOrder
\* ------------------------------------------------------------------------

NotFound == [found |-> FALSE, versions |-> {}]

\* No release task runs.
NoRelease ==
  /\ cliArgs = [publish |-> FALSE, release |-> TRUE, crate |-> NoArg]
  /\ task = "none"
  /\ publishOrder = <<>>
  /\ orderPos = 0
  /\ attempt = 0
  /\ registry = [n \in Names |-> NotFound]
  /\ tag = "unknown"
  /\ released = FALSE
  /\ publishCalls = <<>>
  /\ publishResult = "none"

\* getCratesPublishOrder is not running.
NoOrderCall ==
  /\ pc = "idle"
  /\ pos = 0
  /\ sortedCrates = <<>>
  /\ outcomes = <<>>

\* No manifest is edited.
NoEdit ==
  /\ rootCrate = NoArg
  /\ files = [p \in Paths |-> Missing]
  /\ isUpdatingManifest = [n \in Names |-> FALSE]
  /\ isUpdatingRootManifest = [n \in Names |-> FALSE]
  /\ edits = <<>>

\* No crate was added to the repo by a call.
NoLoad ==
  /\ loads = 0
  /\ loadCall = [op |-> "none", name |-> NoArg]
  /\ loadResult = "none"

\* No script has read its arguments.
NoArgs ==
  /\ argv = <<>>
  /\ parsed = NotParsed

\* No dependency of a crate was asked for.
NoWalk ==
  /\ edges = NoEdges
  /\ walk = [pc |-> "idle", from |-> NoArg]
  /\ stack = <<>>
  /\ visited = <<>>

NoDeps == pending = <<>> /\ NoWalk

\* No CratesIoCache is in use.
NoCache ==
  /\ metaDataCache = [n \in Names |-> Absent]
  /\ lookups = <<>>

\* getPreviousVersionTag was not called.
NotAsked == [version |-> <<>>, threw |-> FALSE, name |-> <<>>]

\* No GitTags object is in use.
NoTags ==
  /\ gitTags = <<>>
  /\ previousTag = NotAsked

\* The other parts of the library are not in use.
NoRest == NoEdit /\ NoLoad /\ NoArgs /\ NoDeps /\ NoCache /\ NoTags

Init ==
  /\ IsWorkspace(crates, MaxDeps)
  /\ NoOrderCall
  /\ NoRelease
  /\ NoRest

\* Entry of getCratesPublishOrder: a fresh, empty sortedCrates.
KeepSortedCrates(sorted) == sorted
FreshSortedCrates(sorted) == <<>>

CallGetCratesPublishOrder ==
  /\ pc = "idle"
  /\ Len(outcomes) < MaxCalls
  /\ pc' = "loop"
  /\ pos' = 0
  /\ sortedCrates' = FreshSortedCrates(sortedCrates)
  /\ UNCHANGED <<crates, outcomes, releaseVars, restVars>>

\* One iteration of the for loop that inserts the crate.
InsertCrate ==
  /\ pc = "loop"
  /\ pos < Len(crates)
  /\ LET crate == crates[pos + 1]
         deps == ImmediateDependenciesInRepo(crates, crate.dependencies)
         ins == GetInsertPosition(sortedCrates, crate.name, deps)
     IN  /\ ~ins.threw
         /\ sortedCrates' = Splice(sortedCrates, ins.insertPos,
                                   [crate |-> crate.name, deps |-> deps])
  /\ pos' = pos + 1
  /\ UNCHANGED <<crates, pc, outcomes, releaseVars, restVars>>

\* One iteration of the for loop in which getInsertPosition throws.
ThrowCircular ==
  /\ pc = "loop"
  /\ pos < Len(crates)
  /\ LET crate == crates[pos + 1]
         deps == ImmediateDependenciesInRepo(crates, crate.dependencies)
         ins == GetInsertPosition(sortedCrates, crate.name, deps)
     IN  /\ ins.threw
         /\ outcomes' = Append(outcomes, Circular(crate.name, ins.item))
  /\ pc' = "idle"
  /\ UNCHANGED <<crates, pos, sortedCrates, releaseVars, restVars>>

\* return sortedCrates.map((i) => i.crate)
ReturnOrder ==
  /\ pc = "loop"
  /\ pos = Len(crates)
  /\ outcomes' = Append(outcomes, Returned(CrateNames(sortedCrates)))
  /\ pc' = "idle"
  /\ UNCHANGED <<crates, pos, sortedCrates, releaseVars, restVars>>

Next ==
  \/ CallGetCratesPublishOrder
  \/ InsertCrate
  \/ ThrowCircular
  \/ ReturnOrder

Spec == Init /\ [][Next]_vars

\* ------------------------------------------------------------------------
\* The release task
\* ------------------------------------------------------------------------

\* getMainCrate: the only crate of the repo, or the one named on the command
\* line; a sequence of length 0 when it throws.
GetMainCrate(repoCrates, args) ==
  IF Len(repoCrates) = 1 THEN <<repoCrates[1]>>
  ELSE IF args.crate # NoArg
       THEN FindCrate(repoCrates, args.crate)
       ELSE <<>>

\* Crate.isPublished: "undefined", "true" or "false".
IsPublishedTwoValued(reg, crate) ==
  IF crate.version \in reg[crate.name].versions THEN "true" ELSE "false"

IsPublished(reg, crate) ==
  IF ~reg[crate.name].found THEN "undefined"
  ELSE IF crate.version \in reg[crate.name].versions THEN "true"
  ELSE "false"

\* The crate the publish loop is at.
CurrentCrate ==
  FindCrate(crates, publishOrder[orderPos + 1])[1]

RegistryRecords ==
  {NotFound,
   [found |-> TRUE, versions |-> {PreviousVersion}],
   [found |-> TRUE, versions |-> {PreviousVersion, CurrentVersion}]}

InitRelease ==
  /\ IsWorkspace(crates, MaxReleaseDeps)
  /\ NoOrderCall
  /\ cliArgs \in [publish : BOOLEAN, release : BOOLEAN, crate : {NoArg, "core"}]
  /\ task = "start"
  /\ publishOrder = <<>>
  /\ orderPos = 0
  /\ attempt = 0
  /\ registry \in [Names -> RegistryRecords]
  /\ \A n \in Names :
       (\A i \in 1..Len(crates) : crates[i].name # n) => registry[n] = NotFound
  /\ tag = "unknown"
  /\ released = FALSE
  /\ publishCalls = <<>>
  /\ publishResult = "none"
  /\ NoRest

\* The commit message holds no version, or the branch is not main.
ExitEarly ==
  /\ task = "start"
  /\ task' = "exited"
  /\ UNCHANGED <<crates, orderVars, restVars, cliArgs, publishOrder, orderPos,
                 attempt, registry, tag, released, publishCalls,
                 publishResult>>

\* getMainCrate throws.
MainCrateMissing ==
  /\ task = "start"
  /\ GetMainCrate(crates, cliArgs) = <<>>
  /\ task' = "failed"
  /\ UNCHANGED <<crates, orderVars, restVars, cliArgs, publishOrder, orderPos,
                 attempt, registry, tag, released, publishCalls,
                 publishResult>>

\* repoTags.has(tagName)
TagAlreadyExists ==
  /\ task = "start"
  /\ GetMainCrate(crates, cliArgs) # <<>>
  /\ tag' = "exists"
  /\ task' = "done"
  /\ UNCHANGED <<crates, orderVars, restVars, cliArgs, publishOrder, orderPos,
                 attempt, registry, released, publishCalls, publishResult>>

\* The tag does not exist and --publish was given: the publish loop starts
\* on the order of repo.getCratesPublishOrder().
StartPublishingInRepoOrder ==
  /\ task = "start"
  /\ GetMainCrate(crates, cliArgs) # <<>>
  /\ cliArgs.publish
  /\ GetCratesPublishOrder(crates).ok
  /\ publishOrder' = [i \in 1..Len(crates) |-> crates[i].name]
  /\ orderPos' = 0
  /\ task' = "publish"
  /\ UNCHANGED <<crates, orderVars, restVars, cliArgs, attempt, registry, tag,
                 released, publishCalls, publishResult>>

StartPublishing ==
  /\ task = "start"
  /\ GetMainCrate(crates, cliArgs) # <<>>
  /\ cliArgs.publish
  /\ GetCratesPublishOrder(crates).ok
  /\ publishOrder' = GetCratesPublishOrder(crates).order
  /\ orderPos' = 0
  /\ task' = "publish"
  /\ UNCHANGED <<crates, orderVars, restVars, cliArgs, attempt, registry, tag,
                 released, publishCalls, publishResult>>

\* The tag does not exist, --publish was given and getCratesPublishOrder
\* throws.
PublishOrderThrows ==
  /\ task = "start"
  /\ GetMainCrate(crates, cliArgs) # <<>>
  /\ cliArgs.publish
  /\ ~GetCratesPublishOrder(crates).ok
  /\ task' = "failed"
  /\ UNCHANGED <<crates, orderVars, restVars, cliArgs, publishOrder, orderPos,
                 attempt, registry, tag, released, publishCalls,
                 publishResult>>

\* The tag does not exist and --publish was not given.
SkipPublishing ==
  /\ task = "start"
  /\ GetMainCrate(crates, cliArgs) # <<>>
  /\ ~cliArgs.publish
  /\ task' = "tagging"
  /\ UNCHANGED <<crates, orderVars, restVars, cliArgs, publishOrder, orderPos,
                 attempt, registry, tag, released, publishCalls,
                 publishResult>>

\* crate.publish() returns false: never published, or already published.
PublishWithoutPreCheck ==
  /\ task = "publish"
  /\ orderPos < Len(publishOrder)
  /\ IsPublished(registry, CurrentCrate) \in {"undefined", "true"}
  /\ attempt' = 0
  /\ task' = "cargo publish"
  /\ publishCalls' = Append(publishCalls, CurrentCrate.name)
  /\ publishResult' = "pending"
  /\ UNCHANGED <<crates, orderVars, restVars, cliArgs, publishOrder, orderPos,
                 registry, tag, released>>

PublishSkips ==
  /\ task = "publish"
  /\ orderPos < Len(publishOrder)
  /\ IsPublished(registry, CurrentCrate) \in {"undefined", "true"}
  /\ orderPos' = orderPos + 1
  /\ publishCalls' = Append(publishCalls, CurrentCrate.name)
  /\ publishResult' = "false"
  /\ UNCHANGED <<crates, orderVars, restVars, cliArgs, task, publishOrder,
                 attempt, registry, tag, released>>

\* crate.publish() passes its pre-check and runs cargo publish.
InvokeCargoPublishUnlessPublished ==
  /\ task = "publish"
  /\ orderPos < Len(publishOrder)
  /\ IsPublished(registry, CurrentCrate) \in {"false", "undefined"}
  /\ attempt' = 0
  /\ task' = "cargo publish"
  /\ publishCalls' = Append(publishCalls, CurrentCrate.name)
  /\ publishResult' = "pending"
  /\ UNCHANGED <<crates, orderVars, restVars, cliArgs, publishOrder, orderPos,
                 registry, tag, released>>

InvokeCargoPublish ==
  /\ task = "publish"
  /\ orderPos < Len(publishOrder)
  /\ IsPublished(registry, CurrentCrate) = "false"
  /\ attempt' = 0
  /\ task' = "cargo publish"
  /\ publishCalls' = Append(publishCalls, CurrentCrate.name)
  /\ publishResult' = "pending"
  /\ UNCHANGED <<crates, orderVars, restVars, cliArgs, publishOrder, orderPos,
                 registry, tag, released>>

\* The command succeeds: the version is in the registry, publish returns.
CargoPublishSucceeds ==
  /\ task = "cargo publish"
  /\ registry' =
       [registry EXCEPT ![CurrentCrate.name].versions =
                          @ \cup {CurrentCrate.version}]
  /\ orderPos' = orderPos + 1
  /\ attempt' = 0
  /\ task' = "publish"
  /\ publishResult' = "true"
  /\ UNCHANGED <<crates, orderVars, restVars, cliArgs, publishOrder, tag,
                 released, publishCalls>>

\* The command fails and is run again after the delay.
CargoPublishRetried ==
  /\ task = "cargo publish"
  /\ attempt + 1 < RetryCount
  /\ attempt' = attempt + 1
  /\ UNCHANGED <<crates, orderVars, restVars, cliArgs, task, publishOrder,
                 orderPos, registry, tag, released, publishCalls,
                 publishResult>>

\* The command fails for the last time: publish throws.
CargoPublishTriedAgain ==
  /\ task = "cargo publish"
  /\ attempt + 1 = RetryCount
  /\ attempt' = attempt + 1
  /\ UNCHANGED <<crates, orderVars, restVars, cliArgs, task, publishOrder,
                 orderPos, registry, tag, released, publishCalls,
                 publishResult>>

CargoPublishGivesUp ==
  /\ task = "cargo publish"
  /\ attempt + 1 = RetryCount
  /\ attempt' = attempt + 1
  /\ task' = "failed"
  /\ publishResult' = "threw"
  /\ UNCHANGED <<crates, orderVars, restVars, cliArgs, publishOrder, orderPos,
                 registry, tag, released, publishCalls>>

\* The publish loop has visited every crate.
FinishPublishing ==
  /\ task = "publish"
  /\ orderPos = Len(publishOrder)
  /\ task' = "tagging"
  /\ UNCHANGED <<crates, orderVars, restVars, cliArgs, publishOrder, orderPos,
                 attempt, registry, tag, released, publishCalls,
                 publishResult>>

\* repo.gitTag(tagName)
GitTag ==
  /\ task = "tagging"
  /\ tag' = "created"
  /\ task' = "pushing"
  /\ UNCHANGED <<crates, orderVars, restVars, cliArgs, publishOrder, orderPos,
                 attempt, registry, released, publishCalls, publishResult>>

\* repo.gitPush("origin", tagName)
GitPushThenRelease ==
  /\ task = "pushing"
  /\ tag' = "pushed"
  /\ task' = "releasing"
  /\ UNCHANGED <<crates, orderVars, restVars, cliArgs, publishOrder, orderPos,
                 attempt, registry, released, publishCalls, publishResult>>

GitPush ==
  /\ task = "pushing"
  /\ tag' = "pushed"
  /\ task' = IF cliArgs.release THEN "releasing" ELSE "done"
  /\ UNCHANGED <<crates, orderVars, restVars, cliArgs, publishOrder, orderPos,
                 attempt, registry, released, publishCalls, publishResult>>

\* POST /repos/{owner}/{repo}/releases
CreateRelease ==
  /\ task = "releasing"
  /\ released' = TRUE
  /\ task' = "done"
  /\ UNCHANGED <<crates, orderVars, restVars, cliArgs, publishOrder, orderPos,
                 attempt, registry, tag, publishCalls, publishResult>>

NextRelease ==
  \/ ExitEarly
  \/ MainCrateMissing
  \/ TagAlreadyExists
  \/ StartPublishing
  \/ PublishOrderThrows
  \/ SkipPublishing
  \/ PublishSkips
  \/ InvokeCargoPublish
  \/ CargoPublishSucceeds
  \/ CargoPublishRetried
  \/ CargoPublishGivesUp
  \/ FinishPublishing
  \/ GitTag
  \/ GitPush
  \/ CreateRelease

SpecRelease == InitRelease /\ [][NextRelease]_vars

\* The runs of the release task with the arguments "--publish core" and the
\* runs with the argument "--skip-release".
InitPublish ==
  /\ InitRelease
  /\ cliArgs \in {[publish |-> TRUE, release |-> TRUE, crate |-> "core"],
                  [publish |-> FALSE, release |-> FALSE, crate |-> NoArg]}

SpecPublish == InitPublish /\ [][NextRelease]_vars

\* ------------------------------------------------------------------------
\* Manifest edits of the crates
\* ------------------------------------------------------------------------

\* The text of a manifest: the version of its package section and the
\* [patch.crates-io.<name>] sections appended to it, in file order.
Text(version, patches) ==
  [version |-> version, patches |-> patches, exists |-> TRUE]

\* Crate.manifestPath
ManifestPath(name) == IF name = rootCrate THEN RootManifest ELSE name

\* String.prototype.replace with a string pattern: the first occurrence only.
RECURSIVE RemoveFirst(_, _)
RemoveFirst(patches, name) ==
  IF patches = <<>> THEN <<>>
  ELSE IF Head(patches) = name THEN Tail(patches)
  ELSE <<Head(patches)>> \o RemoveFirst(Tail(patches), name)

\* The rewrite functions that are passed to the edits: the one of
\* #updateManifestVersion, which looks for the version the crate has in
\* memory, the one of toLocalSource and the one of revertLocalSource.
Apply(rewrite, text, pkgVersion) ==
  CASE rewrite.kind = "version" ->
         IF text.version = pkgVersion
         THEN [text EXCEPT !.version = rewrite.arg]
         ELSE text
    [] rewrite.kind = "patch" ->
         [text EXCEPT !.patches = Append(@, rewrite.arg)]
    [] rewrite.kind = "unpatch" ->
         [text EXCEPT !.patches = RemoveFirst(@, rewrite.arg)]

\* updateFileEnsureChange: originalText === newText throws.
AlwaysChanged(originalText, newText) == TRUE
Changed(originalText, newText) == originalText # newText

\* this.#isUpdatingManifest = true, this.#isUpdatingRootManifest = true
AcquireNothing(flags, name) == flags
Acquire(flags, name) == [flags EXCEPT ![name] = TRUE]

\* finally { this.#isUpdatingManifest = false }
ReleaseNothing(flags, name) == flags
Release(flags, name) == [flags EXCEPT ![name] = FALSE]

\* The flag an edit started through #updateRootManifestFile is guarded by:
\* the call is handed to #updateManifestFile when the crate's manifest is
\* the root manifest or the root manifest does not exist.
GuardOf(name, entry) ==
  IF entry = "root"
     /\ ManifestPath(name) # RootManifest
     /\ files[RootManifest].exists
  THEN "root"
  ELSE "manifest"

PathOf(name, guard) ==
  IF guard = "root" THEN RootManifest ELSE ManifestPath(name)

InFlight(edit) == edit.pc \in {"reading", "writing"}

VersionOf(name) == FindCrate(crates, name)[1].version

\* this.#pkg.version = version
WithVersionUnchanged(repoCrates, name, version) == repoCrates

WithVersion(repoCrates, name, version) ==
  [i \in 1..Len(repoCrates) |->
     IF repoCrates[i].name = name
     THEN [repoCrates[i] EXCEPT !.version = version]
     ELSE repoCrates[i]]

InitManifest ==
  /\ IsWorkspace(crates, 0)
  /\ Len(crates) <= 2
  /\ NoOrderCall
  /\ NoRelease
  /\ NoLoad
  /\ NoArgs
  /\ NoDeps
  /\ NoCache
  /\ NoTags
  /\ rootCrate \in {crates[i].name : i \in 1..Len(crates)} \cup {NoArg}
  /\ \E rootExists \in BOOLEAN :
       files =
         [p \in Paths |->
            IF p = RootManifest
            THEN IF rootCrate # NoArg THEN Text(CurrentVersion, <<>>)
                 ELSE IF rootExists THEN Text("", <<>>)
                 ELSE Missing
            ELSE IF /\ p # rootCrate
                    /\ \E i \in 1..Len(crates) : crates[i].name = p
                 THEN Text(CurrentVersion, <<>>)
                 ELSE Missing]
  /\ isUpdatingManifest = [n \in Names |-> FALSE]
  /\ isUpdatingRootManifest = [n \in Names |-> FALSE]
  /\ edits = <<>>

\* The synchronous start of #updateManifestFile and #updateRootManifestFile:
\* the edit is rejected when the flag is set, otherwise the flag is set and
\* the file is being read.
BeginEdit(name, entry, rewrite) ==
  LET guard == GuardOf(name, entry)
      flags == IF guard = "root" THEN isUpdatingRootManifest
               ELSE isUpdatingManifest
      edit == [via |-> name, guard |-> guard, path |-> PathOf(name, guard),
               rewrite |-> rewrite, text |-> Missing,
               pc |-> IF flags[name] THEN "reentrant" ELSE "reading"]
  IN  /\ Len(edits) < MaxEdits
      /\ edits' = Append(edits, edit)
      /\ isUpdatingManifest' =
           IF guard = "manifest" /\ ~flags[name]
           THEN Acquire(isUpdatingManifest, name)
           ELSE isUpdatingManifest
      /\ isUpdatingRootManifest' =
           IF guard = "root" /\ ~flags[name]
           THEN Acquire(isUpdatingRootManifest, name)
           ELSE isUpdatingRootManifest
      /\ UNCHANGED <<crates, rootCrate, files, orderVars, releaseVars,
                     loadVars, argVars, depVars,
                 cacheVars, tagVars>>

\* The finally block of the edit, with the way the edit ended.
EndEdit(i, how) ==
  /\ edits' = [edits EXCEPT ![i].pc = how]
  /\ isUpdatingManifest' =
       IF edits[i].guard = "manifest"
       THEN Release(isUpdatingManifest, edits[i].via)
       ELSE isUpdatingManifest
  /\ isUpdatingRootManifest' =
       IF edits[i].guard = "root"
       THEN Release(isUpdatingRootManifest, edits[i].via)
       ELSE isUpdatingRootManifest

\* setVersion and setDependencyVersion reach #updateManifestVersion.
UpdateManifestVersion ==
  \E i \in 1..Len(crates), version \in {PreviousVersion, CurrentVersion} :
    BeginEdit(crates[i].name, "manifest",
              [kind |-> "version", arg |-> version])

ToLocalSource ==
  \E i \in 1..Len(crates), j \in 1..Len(crates) :
    /\ i # j
    /\ BeginEdit(crates[i].name, "root",
                 [kind |-> "patch", arg |-> crates[j].name])

RevertLocalSource ==
  \E i \in 1..Len(crates), j \in 1..Len(crates) :
    /\ i # j
    /\ BeginEdit(crates[i].name, "root",
                 [kind |-> "unpatch", arg |-> crates[j].name])

\* readText resolves and the rewrite changes the text: writeText starts.
ReadThenWrite ==
  \E i \in 1..Len(edits) :
    LET originalText == files[edits[i].path]
        newText ==
          Apply(edits[i].rewrite, originalText, VersionOf(edits[i].via))
    IN  /\ edits[i].pc = "reading"
        /\ originalText.exists
        /\ Changed(originalText, newText)
        /\ edits' = [edits EXCEPT ![i].pc = "writing", ![i].text = newText]
        /\ UNCHANGED <<crates, rootCrate, files, isUpdatingManifest,
                       isUpdatingRootManifest, orderVars, releaseVars,
                       loadVars, argVars, depVars,
                 cacheVars, tagVars>>

\* readText resolves and the rewrite returns the text it was given.
ReadThenThrowUnchanged ==
  \E i \in 1..Len(edits) :
    LET originalText == files[edits[i].path]
        newText ==
          Apply(edits[i].rewrite, originalText, VersionOf(edits[i].via))
    IN  /\ edits[i].pc = "reading"
        /\ originalText.exists
        /\ ~Changed(originalText, newText)
        /\ EndEdit(i, "unchanged")
        /\ UNCHANGED <<crates, rootCrate, files, orderVars, releaseVars,
                       loadVars, argVars, depVars,
                 cacheVars, tagVars>>

\* readText rejects.
ReadFails ==
  \E i \in 1..Len(edits) :
    /\ edits[i].pc = "reading"
    /\ EndEdit(i, "read failed")
    /\ UNCHANGED <<crates, rootCrate, files, orderVars, releaseVars, loadVars,
                   argVars, depVars,
                 cacheVars, tagVars>>

\* writeText resolves; #updateManifestVersion then sets the version of the
\* crate in memory.
WriteCompletes ==
  \E i \in 1..Len(edits) :
    /\ edits[i].pc = "writing"
    /\ files' = [files EXCEPT ![edits[i].path] = edits[i].text]
    /\ EndEdit(i, "written")
    /\ crates' =
         IF edits[i].rewrite.kind = "version"
         THEN WithVersion(crates, edits[i].via, edits[i].rewrite.arg)
         ELSE crates
    /\ UNCHANGED <<rootCrate, orderVars, releaseVars, loadVars, argVars,
                   depVars, cacheVars, tagVars>>

\* writeText rejects.
WriteFails ==
  \E i \in 1..Len(edits) :
    /\ edits[i].pc = "writing"
    /\ EndEdit(i, "write failed")
    /\ UNCHANGED <<crates, rootCrate, files, orderVars, releaseVars, loadVars,
                   argVars, depVars,
                 cacheVars, tagVars>>

NextManifest ==
  \/ UpdateManifestVersion
  \/ ToLocalSource
  \/ RevertLocalSource
  \/ ReadThenWrite
  \/ ReadThenThrowUnchanged
  \/ ReadFails
  \/ WriteCompletes
  \/ WriteFails

SpecManifest == InitManifest /\ [][NextManifest]_vars

\* ------------------------------------------------------------------------
\* The crates of a repo: addCrate, loadCrates, loadCrateInSubDir
\* ------------------------------------------------------------------------

\* The packages cargo metadata reports: the id of a package is its name and
\* version; exists tells whether its manifest_path is on disk.
Packages ==
  [name : {"core", "app"}, version : {PreviousVersion, CurrentVersion},
   exists : BOOLEAN]

PackageId(pkg) == <<pkg.name, pkg.version>>

\* metadata.packages and metadata.workspace_members of a cargo metadata call
PackageLists == UNION {[1..n -> Packages] : n \in 0..2}
MemberLists ==
  UNION {[1..n -> {PackageId(pkg) : pkg \in Packages}] : n \in 0..2}

\* this.#crates.some((c) => c.name === crateMetadata.name)
HasNoCrate(repoCrates, name) == FALSE
HasCrate(repoCrates, name) ==
  \E i \in 1..Len(repoCrates) : repoCrates[i].name = name

\* Repo.addCrate: the crates afterwards and "ok" or the error; the Crate
\* constructor throws when the manifest is not on disk.
AddCrateTo(repoCrates, pkg) ==
  IF HasCrate(repoCrates, pkg.name)
  THEN [crates |-> repoCrates, result |-> "twice"]
  ELSE IF ~pkg.exists
       THEN [crates |-> repoCrates, result |-> "no manifest"]
       ELSE [crates |->
               Append(repoCrates,
                      [name |-> pkg.name, version |-> pkg.version,
                       dependencies |-> <<>>]),
             result |-> "ok"]

\* packages.find: the first package the test holds for, <<>> when none.
RECURSIVE FindPackageById(_, _)
FindPackageById(packages, id) ==
  IF packages = <<>> THEN <<>>
  ELSE IF PackageId(Head(packages)) = id THEN <<Head(packages)>>
  ELSE FindPackageById(Tail(packages), id)

RECURSIVE FindPackageByName(_, _)
FindPackageByName(packages, name) ==
  IF packages = <<>> THEN <<>>
  ELSE IF Head(packages).name = name THEN <<Head(packages)>>
  ELSE FindPackageByName(Tail(packages), name)

\* The for loop of loadCrates from member k on.
RECURSIVE AddMembers(_, _, _, _)
AddMembers(repoCrates, packages, members, k) ==
  IF k > Len(members) THEN [crates |-> repoCrates, result |-> "ok"]
  ELSE LET pkg == FindPackageById(packages, members[k])
       IN  IF pkg = <<>>
           THEN [crates |-> repoCrates, result |-> "no package"]
           ELSE LET added == AddCrateTo(repoCrates, pkg[1])
                IN  IF added.result # "ok" THEN added
                    ELSE AddMembers(added.crates, packages, members, k + 1)

\* new Repo(name, folderPath)
InitRepo ==
  /\ crates = <<>>
  /\ NoOrderCall
  /\ NoRelease
  /\ NoEdit
  /\ NoLoad
  /\ NoArgs
  /\ NoDeps
  /\ NoCache
  /\ NoTags

Loaded(op, name, outcome) ==
  /\ loads < MaxLoads
  /\ loads' = loads + 1
  /\ loadCall' = [op |-> op, name |-> name]
  /\ crates' = outcome.crates
  /\ loadResult' = outcome.result
  /\ UNCHANGED <<orderVars, releaseVars, manifestVars, argVars, depVars,
                 cacheVars, tagVars>>

AddCrate ==
  \E pkg \in Packages :
    Loaded("addCrate", pkg.name, AddCrateTo(crates, pkg))

LoadCrates ==
  \E packages \in PackageLists, members \in MemberLists :
    Loaded("loadCrates", NoArg, AddMembers(crates, packages, members, 1))

LoadCrateInSubDir ==
  \E packages \in PackageLists, name \in {"core", "app"} :
    LET pkg == FindPackageByName(packages, name)
    IN  Loaded("loadCrateInSubDir", name,
               IF pkg = <<>>
               THEN [crates |-> crates, result |-> "no package"]
               ELSE AddCrateTo(crates, pkg[1]))

NextRepo ==
  \/ AddCrate
  \/ LoadCrates
  \/ LoadCrateInSubDir

SpecRepo == InitRepo /\ [][NextRepo]_vars

\* ------------------------------------------------------------------------
\* The arguments of the scripts: getCliArgs
\* ------------------------------------------------------------------------

\* The arguments that are tried, and those arg.startsWith("--") holds for.
DashWords ==
  {"--publish", "--skip-release", "--major", "--minor", "--patch",
   "--verbose"}
ArgWords == DashWords \cup {"core", "app"}
StartsWithDashes(arg) == arg \in DashWords

\* The args object a getCliArgs starts from.
Defaults(script) == [NotParsed EXCEPT !.script = script]

\* The loop body of getCliArgs of the release task.
ReleaseArg(args, arg) ==
  IF arg = "--publish" THEN [args EXCEPT !.publish = TRUE]
  ELSE IF arg = "--skip-release" THEN [args EXCEPT !.release = FALSE]
  ELSE IF StartsWithDashes(arg) THEN [args EXCEPT !.threw = TRUE]
  ELSE IF args.crate = NoArg THEN [args EXCEPT !.crate = arg]
  ELSE [args EXCEPT !.threw = TRUE]

\* The loop body of getCliArgs of tasks/publish_release.ts.
PublishReleaseArg(args, arg) ==
  IF arg = "--major" THEN [args EXCEPT !.kind = "major"]
  ELSE IF arg = "--minor" THEN [args EXCEPT !.kind = "minor"]
  ELSE IF arg = "--patch" THEN [args EXCEPT !.kind = "patch"]
  ELSE IF arg = "--skip-release" THEN [args EXCEPT !.release = FALSE]
  ELSE IF StartsWithDashes(arg) THEN [args EXCEPT !.threw = TRUE]
  ELSE IF args.crate = NoArg THEN [args EXCEPT !.crate = arg]
  ELSE [args EXCEPT !.threw = TRUE]

\* The loop body of getCliArgs of the release task of 2022.
OlderReleaseArg(args, arg) ==
  IF arg = "--publish" THEN [args EXCEPT !.publish = TRUE]
  ELSE IF args.crate = NoArg THEN [args EXCEPT !.crate = arg]
  ELSE [args EXCEPT !.threw = TRUE]

\* for (const arg of Deno.args) from argument k on; a throw ends the loop.
RECURSIVE GetCliArgsFrom(_, _, _)
GetCliArgsFrom(denoArgs, k, args) ==
  IF k > Len(denoArgs) \/ args.threw THEN args
  ELSE GetCliArgsFrom(
         denoArgs, k + 1,
         CASE args.script = "release" -> ReleaseArg(args, denoArgs[k])
           [] args.script = "publish_release" ->
                PublishReleaseArg(args, denoArgs[k])
           [] args.script = "older release" ->
                OlderReleaseArg(args, denoArgs[k]))

GetCliArgs(script, denoArgs) == GetCliArgsFrom(denoArgs, 1, Defaults(script))

InitArgs ==
  /\ crates = <<>>
  /\ NoOrderCall
  /\ NoRelease
  /\ NoEdit
  /\ NoLoad
  /\ NoDeps
  /\ NoCache
  /\ NoTags
  /\ \E n \in 0..MaxArgs : argv \in [1..n -> ArgWords]
  /\ parsed = NotParsed

RunGetCliArgs(script) ==
  /\ parsed = NotParsed
  /\ parsed' = GetCliArgs(script, argv)
  /\ UNCHANGED <<crates, orderVars, releaseVars, manifestVars, loadVars,
                 argv, depVars,
                 cacheVars, tagVars>>

ReleaseGetCliArgs == RunGetCliArgs("release")
PublishReleaseGetCliArgs == RunGetCliArgs("publish_release")
OlderReleaseGetCliArgs == RunGetCliArgs("older release")

NextArgs ==
  \/ ReleaseGetCliArgs
  \/ PublishReleaseGetCliArgs
  \/ OlderReleaseGetCliArgs

SpecArgs == InitArgs /\ [][NextArgs]_vars

\* ------------------------------------------------------------------------
\* Crate.immediateDependenciesInRepo and Crate.descendantDependenciesInRepo
\* ------------------------------------------------------------------------

\* The crates of a list of edges.
EdgeCrates(deps) == [i \in 1..Len(deps) |-> deps[i].crate]

\* crate.immediateDependenciesInRepo() of a crate of the repo.
EdgesOf(repoCrates, crate) ==
  ImmediateDependenciesInRepo(repoCrates, crate.dependencies)

\* crates.has(crate.name) of the walk.
HasVisitedNever(names, name) == FALSE
HasVisited(names, name) == \E i \in 1..Len(names) : names[i] = name

\* The packages of a workspace wait to be added to an empty repo.
InitDeps ==
  /\ crates = <<>>
  /\ IsWorkspace(pending, MaxEdgeDeps)
  /\ NoOrderCall
  /\ NoRelease
  /\ NoEdit
  /\ NoLoad
  /\ NoArgs
  /\ NoWalk
  /\ NoCache
  /\ NoTags

\* repo.addCrate of the next package. The calls below are synchronous, so
\* none is in progress; what they returned earlier is dropped.
AddPendingCrate ==
  /\ pending # <<>>
  /\ walk.pc # "loop"
  /\ ~HasCrate(crates, Head(pending).name)
  /\ crates' = Append(crates, Head(pending))
  /\ pending' = Tail(pending)
  /\ edges' = NoEdges
  /\ walk' = [pc |-> "idle", from |-> NoArg]
  /\ stack' = <<>>
  /\ visited' = <<>>
  /\ UNCHANGED <<orderVars, releaseVars, manifestVars, loadVars, argVars,
                 cacheVars, tagVars>>

\* A caller asks a crate of the repo for its edges.
CallImmediateDependenciesOfPlan ==
  /\ walk.pc # "loop"
  /\ \E i \in 1..Len(crates) :
       edges' = [crate |-> crates[i].name,
                 deps |-> ImmediateDependenciesInRepo(crates \o pending,
                                                      crates[i].dependencies)]
  /\ walk' = [pc |-> "idle", from |-> NoArg]
  /\ stack' = <<>>
  /\ visited' = <<>>
  /\ UNCHANGED <<crates, pending, orderVars, releaseVars, manifestVars,
                 loadVars, argVars, cacheVars, tagVars>>
CallImmediateDependenciesInRepo ==
  /\ walk.pc # "loop"
  /\ \E i \in 1..Len(crates) :
       edges' = [crate |-> crates[i].name, deps |-> EdgesOf(crates, crates[i])]
  /\ walk' = [pc |-> "idle", from |-> NoArg]
  /\ stack' = <<>>
  /\ visited' = <<>>
  /\ UNCHANGED <<crates, pending, orderVars, releaseVars, manifestVars,
                 loadVars, argVars, cacheVars, tagVars>>

\* crate.descendantDependenciesInRepo() up to its loop: the map is empty,
\* the stack holds the crate's own edges.
CallDescendantDependenciesInRepo ==
  /\ walk.pc # "loop"
  /\ \E i \in 1..Len(crates) :
       /\ walk' = [pc |-> "loop", from |-> crates[i].name]
       /\ stack' = EdgeCrates(EdgesOf(crates, crates[i]))
  /\ visited' = <<>>
  /\ edges' = NoEdges
  /\ UNCHANGED <<crates, pending, orderVars, releaseVars, manifestVars,
                 loadVars, argVars, cacheVars, tagVars>>

\* One iteration that pops a crate the map does not have.
VisitCrate ==
  /\ walk.pc = "loop"
  /\ stack # <<>>
  /\ LET crate == stack[Len(stack)]
     IN  /\ ~HasVisited(visited, crate)
         /\ visited' = Append(visited, crate)
         /\ stack' = SubSeq(stack, 1, Len(stack) - 1)
                       \o EdgeCrates(EdgesOf(crates,
                                              FindCrate(crates, crate)[1]))
  /\ UNCHANGED <<crates, pending, edges, walk, orderVars, releaseVars,
                 manifestVars, loadVars, argVars, cacheVars, tagVars>>

\* One iteration that pops a crate the map has.
SkipVisitedCrate ==
  /\ walk.pc = "loop"
  /\ stack # <<>>
  /\ HasVisited(visited, stack[Len(stack)])
  /\ stack' = SubSeq(stack, 1, Len(stack) - 1)
  /\ UNCHANGED <<crates, pending, edges, walk, visited, orderVars,
                 releaseVars, manifestVars, loadVars, argVars, cacheVars,
                 tagVars>>

\* The stack is empty: the values of the map are returned.
ReturnDescendants ==
  /\ walk.pc = "loop"
  /\ stack = <<>>
  /\ walk' = [walk EXCEPT !.pc = "done"]
  /\ UNCHANGED <<crates, pending, edges, stack, visited, orderVars,
                 releaseVars, manifestVars, loadVars, argVars, cacheVars,
                 tagVars>>

NextDeps ==
  \/ AddPendingCrate
  \/ CallImmediateDependenciesInRepo
  \/ CallDescendantDependenciesInRepo
  \/ VisitCrate
  \/ SkipVisitedCrate
  \/ ReturnDescendants

SpecDeps == InitDeps /\ [][NextDeps]_vars

\* ------------------------------------------------------------------------
\* CratesIoCache.getMetadata
\* ------------------------------------------------------------------------

\* What the request of getCratesIoMetadata resolves to: the record of the
\* name, or undefined on the status 404.
Answer(reg, name) ==
  IF reg[name].found
  THEN [kind |-> "metadata", versions |-> reg[name].versions]
  ELSE Absent

\* metadata ?? "not-found"
StoredAsIs(metadata) == metadata
Stored(metadata) ==
  IF metadata.kind = "undefined"
  THEN [kind |-> "not-found", versions |-> {}]
  ELSE metadata

\* metadata === "not-found" ? undefined : metadata
Given(metadata) ==
  IF metadata.kind = "not-found" THEN Absent ELSE metadata

\* One call of getMetadata, as it is kept in lookups.
Lookup(name, requested, threw, result) ==
  [name |-> name, requested |-> requested, threw |-> threw, result |-> result]

\* A new cache, and a registry that knows some of the names.
InitCache ==
  /\ crates = <<>>
  /\ NoOrderCall
  /\ cliArgs = [publish |-> FALSE, release |-> TRUE, crate |-> NoArg]
  /\ task = "none"
  /\ publishOrder = <<>>
  /\ orderPos = 0
  /\ attempt = 0
  /\ registry \in [Names -> RegistryRecords]
  /\ tag = "unknown"
  /\ released = FALSE
  /\ publishCalls = <<>>
  /\ publishResult = "none"
  /\ NoEdit
  /\ NoLoad
  /\ NoArgs
  /\ NoDeps
  /\ NoCache
  /\ NoTags

\* getMetadata finds the name in the map.
GetMetadataFromCache ==
  /\ Len(lookups) < MaxLookups
  /\ \E name \in Names :
       /\ metaDataCache[name].kind # "undefined"
       /\ lookups' = Append(lookups,
            Lookup(name, FALSE, FALSE, Given(metaDataCache[name])))
  /\ UNCHANGED <<crates, orderVars, releaseVars, manifestVars, loadVars,
                 argVars, depVars, tagVars, metaDataCache>>

\* getMetadata does not find the name in the map, and its request is
\* answered.
GetMetadataFromRegistry ==
  /\ Len(lookups) < MaxLookups
  /\ \E name \in Names :
       /\ metaDataCache[name].kind = "undefined"
       /\ LET metadata == Answer(registry, name)
          IN  /\ metaDataCache' =
                   [metaDataCache EXCEPT ![name] = Stored(metadata)]
              /\ lookups' = Append(lookups,
                   Lookup(name, TRUE, FALSE, Given(metadata)))
  /\ UNCHANGED <<crates, orderVars, releaseVars, manifestVars, loadVars,
                 argVars, depVars, tagVars>>

\* getMetadata does not find the name in the map, and its request is
\* rejected: a status other than 200 and 404, or no connection.
GetMetadataThrows ==
  /\ Len(lookups) < MaxLookups
  /\ \E name \in Names :
       /\ metaDataCache[name].kind = "undefined"
       /\ lookups' = Append(lookups, Lookup(name, TRUE, TRUE, Absent))
  /\ UNCHANGED <<crates, orderVars, releaseVars, manifestVars, loadVars,
                 argVars, depVars, tagVars, metaDataCache>>

\* Between two calls a version of a package is published to the registry.
RegistryGainsVersion ==
  /\ \E name \in Names :
       \E record \in RegistryRecords :
         /\ record.found
         /\ registry[name].versions \subseteq record.versions
         /\ registry[name] # record
         /\ registry' = [registry EXCEPT ![name] = record]
  /\ UNCHANGED <<crates, orderVars, restVars, cliArgs, task, publishOrder,
                 orderPos, attempt, tag, released, publishCalls,
                 publishResult>>

NextCache ==
  \/ GetMetadataFromCache
  \/ GetMetadataFromRegistry
  \/ GetMetadataThrows
  \/ RegistryGainsVersion

SpecCache == InitCache /\ [][NextCache]_vars

\* ------------------------------------------------------------------------
\* GitTags.getPreviousVersionTag
\* ------------------------------------------------------------------------

\* The numbers of the texts "0.1.0", "0.2.0", "0.10.0" and "1.0.0", and of
\* the text "0.1", which is not a version.
VersionTexts == {<<0, 1, 0>>, <<0, 2, 0>>, <<0, 10, 0>>, <<1, 0, 0>>, <<0, 1>>}

\* The names of tags: a text, with or without the prefix "v".
TagNames == [v : BOOLEAN, text : VersionTexts]

\* semver.parse of a text: the version, as a sequence of length 0 (no
\* version) or 1.
Parse(text) == IF Len(text) = 3 THEN <<text>> ELSE <<>>

\* semver.compare: negative, zero or positive.
Compare(a, b) ==
  IF a[1] # b[1] THEN a[1] - b[1]
  ELSE IF a[2] # b[2] THEN a[2] - b[2]
  ELSE a[3] - b[3]

\* getGitVersionTags: the tags whose name without the prefix "v" is a
\* version, in the order of the tags.
RECURSIVE GetGitVersionTags(_)
GetGitVersionTags(tags) ==
  IF tags = <<>> THEN <<>>
  ELSE LET name == Head(tags)
           version == Parse(name.text)
           rest == GetGitVersionTags(Tail(tags))
       IN  IF version # <<>>
           THEN <<[name |-> name, version |-> version[1]]>> \o rest
           ELSE rest

\* isGtPrevious && semver.compare(tagInfo.version, v) < 0
ReplacesAlways(previousVersion, tagInfo, v) == Compare(tagInfo.version, v) < 0
Replaces(previousVersion, tagInfo, v) ==
  /\ \/ previousVersion = <<>>
     \/ Compare(previousVersion[1].version, tagInfo.version) < 0
  /\ Compare(tagInfo.version, v) < 0

\* The for loop of getPreviousVersionTag over the version tags, from the
\* given previousVersion: a sequence of length 0 (undefined) or 1.
RECURSIVE PreviousFrom(_, _, _)
PreviousFrom(versionTags, previousVersion, v) ==
  IF versionTags = <<>> THEN previousVersion
  ELSE PreviousFrom(Tail(versionTags),
                    IF Replaces(previousVersion, Head(versionTags), v)
                    THEN <<Head(versionTags)>>
                    ELSE previousVersion,
                    v)

\* getPreviousVersionTag: the name, as a sequence of length 0 or 1, or the
\* throw on a text that is no version.
GetPreviousVersionTag(tags, text) ==
  LET v == Parse(text)
  IN  IF v = <<>>
      THEN [version |-> text, threw |-> TRUE, name |-> <<>>]
      ELSE LET previousVersion ==
                 PreviousFrom(GetGitVersionTags(tags), <<>>, v[1])
           IN  [version |-> text,
                threw |-> FALSE,
                name |-> IF previousVersion = <<>> THEN <<>>
                         ELSE <<previousVersion[1].name>>]

\* The tags of a repo, in any order.
InitTags ==
  /\ crates = <<>>
  /\ NoOrderCall
  /\ NoRelease
  /\ NoEdit
  /\ NoLoad
  /\ NoArgs
  /\ NoDeps
  /\ NoCache
  /\ \E n \in 0..MaxTags : gitTags \in [1..n -> TagNames]
  /\ previousTag = NotAsked

CallGetPreviousVersionTag ==
  /\ \E text \in VersionTexts :
       previousTag' = GetPreviousVersionTag(gitTags, text)
  /\ UNCHANGED <<crates, orderVars, releaseVars, manifestVars, loadVars,
                 argVars, depVars, cacheVars, gitTags>>

NextTags == CallGetPreviousVersionTag

SpecTags == InitTags /\ [][NextTags]_vars

\* ------------------------------------------------------------------------
\* Vocabulary of the properties
\* ------------------------------------------------------------------------

Members == {crates[i].name : i \in 1..Len(crates)}

InputNames == [i \in 1..Len(crates) |-> crates[i].name]

IndexIn(s, x) == CHOOSE i \in 1..Len(s) : s[i] = x

Count(s, x) == Cardinality({i \in 1..Len(s) : s[i] = x})

DeclaredBy(a) == crates[IndexIn(InputNames, a)].dependencies

\* a declares a dependency of the given kind on the workspace member b.
DeclaresEdge(a, b, kind) ==
  /\ a \in Members
  /\ b \in Members
  /\ \E i \in 1..Len(DeclaredBy(a)) :
       DeclaredBy(a)[i] = [name |-> b, kind |-> kind]

NormalEdge(a, b) == DeclaresEdge(a, b, "null")
DevEdge(a, b) == DeclaresEdge(a, b, "dev")
AnyEdge(a, b) == NormalEdge(a, b) \/ DevEdge(a, b)

RECURSIVE NormalPath(_, _, _)
NormalPath(a, b, n) ==
  /\ n > 0
  /\ \/ NormalEdge(a, b)
     \/ \E c \in Members : NormalEdge(a, c) /\ NormalPath(c, b, n - 1)

NormalCyclic == \E a \in Members : NormalPath(a, a, Cardinality(Members))

Finished == pc = "idle" /\ outcomes # <<>>
LastOutcome == outcomes[Len(outcomes)]

Before(order, x, y) == IndexIn(order, x) < IndexIn(order, y)

NamesPair(o, a, b) == ~o.ok /\ {o.crate, o.item} = {a, b}

\* The workspace with every declaration of q on p removed.
RECURSIVE WithoutDeclarations(_, _)
WithoutDeclarations(dependencies, p) ==
  IF dependencies = <<>> THEN <<>>
  ELSE IF Head(dependencies).name = p
       THEN WithoutDeclarations(Tail(dependencies), p)
       ELSE <<Head(dependencies)>> \o WithoutDeclarations(Tail(dependencies), p)

WithoutEdge(q, p) ==
  [i \in 1..Len(crates) |->
     IF crates[i].name = q
     THEN [crates[i] EXCEPT
             !.dependencies = WithoutDeclarations(crates[i].dependencies, p)]
     ELSE crates[i]]

\* ------------------------------------------------------------------------
\* Properties of getCratesPublishOrder
\* ------------------------------------------------------------------------

\* C1: when the normal-only graph of the workspace is acyclic, an order that
\* is returned has, for every normal edge a -> b, b strictly before a.
C1_NormalDependenciesFirst ==
  (Finished /\ ~NormalCyclic /\ LastOutcome.ok) =>
    \A a, b \in Members :
      NormalEdge(a, b) => Before(LastOutcome.order, b, a)

\* C2: two packages with a normal edge in each direction make the call fail
\* with a circular-dependency error naming both.
C2_MutualNormalRejected ==
  Finished =>
    \A a, b \in Members :
      (NormalEdge(a, b) /\ NormalEdge(b, a)) => NamesPair(LastOutcome, a, b)

\* C3: a cycle of any length in the normal-only graph makes the call fail.
C3_NormalCycleRejected ==
  (Finished /\ NormalCyclic) => ~LastOutcome.ok

\* C4: a returned order is a permutation of the input sequence.
C4_OutputIsPermutation ==
  (Finished /\ LastOutcome.ok) =>
    /\ Len(LastOutcome.order) = Len(InputNames)
    /\ \A x \in Names : Count(LastOutcome.order, x) = Count(InputNames, x)

C4_Witness ==
  /\ Finished
  /\ LastOutcome.ok
  /\ Len(LastOutcome.order) = 3
  /\ LastOutcome.order # InputNames

\* C5: when a normally depends on b and b only dev-depends on a, no
\* circular-dependency error names that pair, and a returned order has b
\* before a.
C5_DevBackEdgeTieBreak ==
  Finished =>
    \A a, b \in Members :
      (NormalEdge(a, b) /\ DevEdge(b, a) /\ ~NormalEdge(b, a)) =>
        /\ ~NamesPair(LastOutcome, a, b)
        /\ LastOutcome.ok => Before(LastOutcome.order, b, a)

\* The workspace {core, core-dev-tools, app} of the example scenario.
ExampleDependencies ==
  [n \in Names |->
     CASE n = "app" -> <<[name |-> "core", kind |-> "null"]>>
       [] n = "core-dev-tools" -> <<[name |-> "core", kind |-> "dev"]>>
       [] n = "core" -> <<[name |-> "core-dev-tools", kind |-> "dev"]>>]

IsExampleWorkspace ==
  /\ Len(crates) = 3
  /\ \A i \in 1..Len(crates) :
       crates[i].dependencies = ExampleDependencies[crates[i].name]

\* C6 as claimed: for the example workspace no input order raises a
\* circular-dependency error, and core is placed before app.
C6_ExampleNeverCircular ==
  (Finished /\ IsExampleWorkspace) =>
    /\ LastOutcome.ok
    /\ Before(LastOutcome.order, "core", "app")

\* C6 as amended: for the example workspace the call fails with a
\* circular-dependency error naming core and core-dev-tools for every input
\* order except app, core-dev-tools, core; for that order it returns core,
\* app, core-dev-tools.
C6_ExampleOutcome ==
  (Finished /\ IsExampleWorkspace) =>
    IF InputNames = <<"app", "core-dev-tools", "core">>
    THEN LastOutcome = Returned(<<"core", "app", "core-dev-tools">>)
    ELSE NamesPair(LastOutcome, "core", "core-dev-tools")

C6_Witness ==
  /\ Finished
  /\ IsExampleWorkspace
  /\ InputNames = <<"core", "core-dev-tools", "app">>
  /\ ~LastOutcome.ok

\* C7: two packages that dev-depend on each other make the call fail with a
\* circular-dependency error naming both.
C7_MutualDevRejected ==
  Finished =>
    \A a, b \in Members :
      (DevEdge(a, b) /\ DevEdge(b, a)) => NamesPair(LastOutcome, a, b)

\* C9: every invocation on the same repo has the same outcome, the same
\* order or the same error.
C9_Deterministic ==
  \A i, j \in 1..Len(outcomes) : outcomes[i] = outcomes[j]

C9_Witness ==
  /\ Len(outcomes) = 2
  /\ outcomes[1].ok
  /\ Len(outcomes[1].order) = 3
  /\ outcomes[1].order # InputNames

\* q has only a dev edge to p and p has no edge to q.
DevOnlyEdge(q, p) ==
  /\ q # p
  /\ DevEdge(q, p)
  /\ ~NormalEdge(q, p)
  /\ ~AnyEdge(p, q)

\* C10 as claimed: a dev-only edge q -> p without an edge back leaves the
\* relative order of p and q as it is for the same input without that edge.
C10_DevOnlyEdgeIgnored ==
  Finished =>
    \A q, p \in Members :
      LET without == GetCratesPublishOrder(WithoutEdge(q, p))
      IN  (DevOnlyEdge(q, p) /\ LastOutcome.ok /\ without.ok) =>
            (Before(LastOutcome.order, p, q) <=> Before(without.order, p, q))

\* C10 as amended: when q comes before p in the input, a returned order
\* places p before q; when p comes before q in the input, the outcome is the
\* one of the same input without that edge.
C10_DevOnlyEdgeConstrainsLaterCrate ==
  Finished =>
    \A q, p \in Members :
      DevOnlyEdge(q, p) =>
        IF Before(InputNames, q, p)
        THEN LastOutcome.ok => Before(LastOutcome.order, p, q)
        ELSE LastOutcome = GetCratesPublishOrder(WithoutEdge(q, p))

C10_Witness ==
  /\ Finished
  /\ LastOutcome.ok
  /\ \E q, p \in Members :
       /\ DevOnlyEdge(q, p)
       /\ Before(InputNames, q, p)
       /\ Before(LastOutcome.order, p, q)
       /\ GetCratesPublishOrder(WithoutEdge(q, p)).ok
       /\ Before(GetCratesPublishOrder(WithoutEdge(q, p)).order, q, p)

\* ------------------------------------------------------------------------
\* Properties of the release task
\* ------------------------------------------------------------------------

AtRegistry(name) ==
  /\ registry[name].found
  /\ CurrentVersion \in registry[name].versions

\* C8: while cargo publish runs for a package, every workspace package it
\* normally depends on is in the registry at its current version.
C8_NormalDependenciesPublishedFirst ==
  task = "cargo publish" =>
    \A q \in Members : NormalEdge(CurrentCrate.name, q) => AtRegistry(q)

\* ------------------------------------------------------------------------
\* Manifest edits
\* ------------------------------------------------------------------------

\* The edit that a step starts, when the step starts one.
StartsEdit == Len(edits') = Len(edits) + 1
StartedEdit == edits'[Len(edits')]

\* The rewrite of edit i returns the text that is in the file.
IsNoOp(i) ==
  /\ files[edits[i].path].exists
  /\ Apply(edits[i].rewrite, files[edits[i].path], VersionOf(edits[i].via))
       = files[edits[i].path]

\* C11: when the read of an edit resolves and the rewrite function returns
\* the text that was read, the edit ends with the "file didn't change" error
\* and the step leaves every manifest file as it was; an edit that ended
\* this way stays ended.
C11_NoOpEditThrows ==
  [][\A i \in 1..Len(edits) :
       /\ ( /\ edits[i].pc = "reading"
            /\ IsNoOp(i)
            /\ edits'[i].pc \notin {"reading", "read failed"} )
          => (edits'[i].pc = "unchanged" /\ files' = files)
       /\ edits[i].pc = "unchanged" => edits'[i] = edits[i]]_vars

C11_Witness ==
  \E i \in 1..Len(edits) : edits[i].pc = "unchanged"

C13_OneEditPerPath ==
  \A i \in 1..Len(edits), j \in 1..Len(edits) :
    (i # j /\ InFlight(edits[i]) /\ InFlight(edits[j]))
      => edits[i].path # edits[j].path

\* C14: an edit is rejected by the reentrancy guard only while an earlier
\* edit through the same crate and the same flag is reading or writing: the
\* flag of an edit that succeeded, failed as a no-op or failed in the read
\* or the write does not reject a following edit.
C14_FlagReleasedOnEveryExit ==
  [][(StartsEdit /\ StartedEdit.pc = "reentrant")
       => \E i \in 1..Len(edits) :
            /\ InFlight(edits[i])
            /\ edits[i].via = StartedEdit.via
            /\ edits[i].guard = StartedEdit.guard]_vars

C14_Witness ==
  \E i \in 1..Len(edits), j \in 1..Len(edits) :
    /\ i < j
    /\ edits[i].via = edits[j].via
    /\ edits[i].guard = edits[j].guard
    /\ edits[i].pc = "write failed"
    /\ edits[j].pc = "reading"

\* The crate of the publish() call that was started last.
LastCalled == publishCalls[Len(publishCalls)]

\* C15: a publish() call on a crate whose current version the registry
\* already records returns false in the step it is made, without the cargo
\* publish command being run and without a change of the registry.
C15_PublishedCrateSkipped ==
  [][( /\ task = "publish"
       /\ orderPos < Len(publishOrder)
       /\ AtRegistry(CurrentCrate.name) )
       => ( /\ publishCalls' = Append(publishCalls, CurrentCrate.name)
            /\ publishResult' = "false"
            /\ task' = "publish"
            /\ registry' = registry )]_vars

C15_Witness ==
  /\ publishCalls # <<>>
  /\ publishResult = "false"
  /\ AtRegistry(LastCalled)

\* C16: while a publish() call runs the cargo publish command, the run in
\* progress is at most the fifth; a run that succeeds ends the call with the
\* result true; a run that fails is followed by another run when fewer than
\* five were made, and otherwise the call throws.
C16_AtMostFiveAttempts ==
  [][/\ task' = "cargo publish" => attempt' + 1 <= 5
     /\ task = "cargo publish" =>
          IF registry' # registry
          THEN publishResult' = "true" /\ task' = "publish"
          ELSE IF attempt + 1 < 5
               THEN task' = "cargo publish" /\ attempt' = attempt + 1
               ELSE task' = "failed" /\ publishResult' = "threw"]_vars

C16_Witness ==
  /\ task = "failed"
  /\ publishResult = "threw"
  /\ attempt = 5

\* C17: the crates publish() was called on are, in order, the first crates
\* of the order getCratesPublishOrder returns for the repo; once a call
\* threw, no step follows: no further call, no tag and no release; and a
\* version that is in the registry stays there.
C17_PublishedInOrderUntilFailure ==
  [][/\ publishCalls' # publishCalls =>
          LET order == GetCratesPublishOrder(crates).order
              called == Len(publishCalls')
          IN  /\ called = Len(publishCalls) + 1
              /\ called <= Len(order)
              /\ \A i \in 1..called : publishCalls'[i] = order[i]
     /\ publishResult # "threw"
     /\ publishResult' = "threw" => (tag' = "unknown" /\ ~released')
     /\ \A n \in Names :
          /\ registry[n].found => registry'[n].found
          /\ registry[n].versions \subseteq registry'[n].versions]_vars

C17_Witness ==
  /\ publishResult = "threw"
  /\ Len(publishCalls) = 3
  /\ AtRegistry(publishCalls[1])
  /\ InputNames # publishOrder

\* C18: isPublished of a crate is "undefined" exactly when the registry has
\* no record of its name, "true" exactly when the record lists the version
\* of the crate, and "false" exactly when there is a record without it.
C18_IsPublishedThreeValued ==
  \A i \in 1..Len(crates) :
    LET record == registry[crates[i].name]
        result == IsPublished(registry, crates[i])
    IN  /\ result = "undefined" <=> ~record.found
        /\ result = "true" <=>
             (record.found /\ crates[i].version \in record.versions)
        /\ result = "false" <=>
             (record.found /\ crates[i].version \notin record.versions)

C18_Witness ==
  /\ task = "cargo publish"
  /\ \E i \in 1..Len(crates), j \in 1..Len(crates) :
       /\ IsPublished(registry, crates[i]) = "undefined"
       /\ IsPublished(registry, crates[j]) = "true"

\* ------------------------------------------------------------------------
\* The crates of a repo
\* ------------------------------------------------------------------------

\* C19: after every call of addCrate, loadCrates or loadCrateInSubDir no two
\* crates of the repo have the same name, and a call that adds a package
\* whose name a crate of the repo has throws and leaves the crates and
\* their order as they were.
C19_CrateNamesUnique ==
  [][/\ \A i \in 1..Len(crates'), j \in 1..Len(crates') :
          crates'[i].name = crates'[j].name => i = j
     /\ ( /\ loads' = loads + 1
          /\ loadCall'.op = "addCrate"
          /\ \E i \in 1..Len(crates) : crates[i].name = loadCall'.name )
        => (loadResult' = "twice" /\ crates' = crates)]_vars

C19_Witness ==
  /\ loadCall.op = "addCrate"
  /\ loadResult = "twice"
  /\ Len(crates) = 2

\* ------------------------------------------------------------------------
\* The arguments of the scripts
\* ------------------------------------------------------------------------

\* The flags the getCliArgs of a script compares its arguments with.
RecognisedFlags(script) ==
  CASE script = "release" -> {"--publish", "--skip-release"}
    [] script = "publish_release" ->
         {"--major", "--minor", "--patch", "--skip-release"}
    [] script = "older release" -> {"--publish"}
    [] OTHER -> {}

\* C20: when the argument list of a script holds an argument that starts
\* with "--" and is not one of the flags of the script, getCliArgs throws;
\* and the crate name getCliArgs returns never starts with "--".
C20_UnknownFlagsRejected ==
  parsed.script # "none" =>
    /\ (\E i \in 1..Len(argv) :
          /\ StartsWithDashes(argv[i])
          /\ argv[i] \notin RecognisedFlags(parsed.script))
         => parsed.threw
    /\ ~parsed.threw => ~StartsWithDashes(parsed.crate)

\* ------------------------------------------------------------------------
\* The insertion rule
\* ------------------------------------------------------------------------

\* q and p have edges of one kind to each other.
SameKindBothWays(q, p) ==
  \E kind \in Kinds : DeclaresEdge(q, p, kind) /\ DeclaresEdge(p, q, kind)

\* The scan of the placed packages from position i for the package p: the
\* 0-based index p is inserted at, or the package the scan fails at.
RECURSIVE RuleScan(_, _, _)
RuleScan(placed, i, p) ==
  IF i > Len(placed)
  THEN [failed |-> FALSE, index |-> Len(placed), at |-> ""]
  ELSE LET q == placed[i]
       IN  IF ~AnyEdge(q, p) THEN RuleScan(placed, i + 1, p)
           ELSE IF SameKindBothWays(q, p)
                THEN [failed |-> TRUE, index |-> i - 1, at |-> q]
                ELSE IF ~AnyEdge(p, q) \/ NormalEdge(q, p)
                     THEN [failed |-> FALSE, index |-> i - 1, at |-> ""]
                     ELSE RuleScan(placed, i + 1, p)

\* The packages of the input from position k on, inserted by the rule into
\* the placed ones.
RECURSIVE RuleFrom(_, _)
RuleFrom(k, placed) ==
  IF k > Len(InputNames)
  THEN [ok |-> TRUE, order |-> placed, crate |-> "", item |-> ""]
  ELSE LET p == InputNames[k]
           found == RuleScan(placed, 1, p)
       IN  IF found.failed
           THEN [ok |-> FALSE, order |-> <<>>, crate |-> p, item |-> found.at]
           ELSE RuleFrom(k + 1,
                  SubSeq(placed, 1, found.index) \o <<p>>
                    \o SubSeq(placed, found.index + 1, Len(placed)))

\* Some package declares a workspace package both as a normal and as a dev
\* dependency.
MixedKinds ==
  \E a \in Members, b \in Members : NormalEdge(a, b) /\ DevEdge(a, b)

\* C21: a finished getCratesPublishOrder has the outcome of the insertion
\* rule: the same order, or the failure on the same pair of packages.
C21_SameAsInsertionRule ==
  Finished => LastOutcome = RuleFrom(1, <<>>)

\* ------------------------------------------------------------------------
\* The version of a crate
\* ------------------------------------------------------------------------

\* Every edit that was started is a setVersion.
OnlySetVersion ==
  \A i \in 1..Len(edits) : edits[i].rewrite.kind = "version"

ManifestVersion(name) == files[ManifestPath(name)].version

\* C22: as long as only setVersion is called, after every step the version a
\* crate has in memory is the version in its manifest; a step that changes
\* the version in memory is the one that writes the manifest; and a step in
\* which a setVersion ends with the "file didn't change" error changes no
\* version in memory.
C22_VersionMatchesManifest ==
  [][OnlySetVersion' =>
       /\ \A i \in 1..Len(crates) :
            /\ crates'[i].version = ManifestVersion(crates[i].name)'
            /\ crates'[i].version # crates[i].version =>
                 ManifestVersion(crates[i].name)'
                   # ManifestVersion(crates[i].name)
       /\ (\E i \in 1..Len(edits) :
             edits[i].pc = "reading" /\ edits'[i].pc = "unchanged")
            => crates' = crates]_vars

C22_Witness ==
  /\ Len(edits) = 2
  /\ edits[1].via = edits[2].via
  /\ edits[1].rewrite.kind = "version"
  /\ edits[1].pc = "written"
  /\ edits[2].rewrite.kind = "version"
  /\ edits[2].pc = "unchanged"
  /\ VersionOf(edits[1].via) = PreviousVersion

\* ------------------------------------------------------------------------
\* C23, C28: the edges of a crate
\* ------------------------------------------------------------------------

\* The declared dependencies of a package on members of the workspace.
DeclaredOnMembers(a) ==
  SelectSeq(DeclaredBy(a), LAMBDA d : d.name \in Members)

\* C23: immediateDependenciesInRepo returns, in declaration order, one edge
\* for each declared dependency whose name is a member of the workspace at
\* the time of the call, dev exactly when the declared kind is dev; names
\* outside the workspace give no edge, and a package added to the repo
\* before the call is a target whenever it was added.
C23_EdgesAreDerived ==
  edges # NoEdges =>
    LET declared == DeclaredOnMembers(edges.crate)
    IN  /\ Len(edges.deps) = Len(declared)
        /\ \A i \in 1..Len(declared) :
             /\ edges.deps[i].crate = declared[i].name
             /\ edges.deps[i].isDev = (declared[i].kind = "dev")

\* The first crate of the repo has an edge to one added after it, a dev
\* edge, and a declared dependency outside the workspace.
C23_Witness ==
  /\ Len(crates) >= 2
  /\ edges.crate = crates[1].name
  /\ \E i \in 1..Len(edges.deps) :
       edges.deps[i].crate = crates[2].name /\ edges.deps[i].isDev
  /\ Len(edges.deps) < Len(DeclaredBy(edges.crate))

\* b is reached from a through one or more edges, of either kind.
RECURSIVE ReachedIn(_, _, _)
ReachedIn(a, b, n) ==
  \/ AnyEdge(a, b)
  \/ n > 1 /\ \E c \in Members : AnyEdge(a, c) /\ ReachedIn(c, b, n - 1)

Reachable(a) == {b \in Members : ReachedIn(a, b, Cardinality(Members))}

NoDuplicates(s) == \A i, j \in 1..Len(s) : s[i] = s[j] => i = j

\* C28: descendantDependenciesInRepo terminates: every iteration of its
\* loop either adds a package that was not in the map or shortens the
\* stack by one; and it returns each package reachable from the starting
\* one through one or more edges exactly once, and no other.
C28_DescendantsAreReachable ==
  [][
      /\ (walk.pc = "loop" /\ walk'.pc = "loop") =>
           \/ /\ Len(visited') = Len(visited) + 1
              /\ NoDuplicates(visited')
              /\ Range(visited') \subseteq Members
           \/ /\ visited' = visited
              /\ Len(stack') = Len(stack) - 1
      /\ (walk.pc = "loop" /\ walk'.pc = "done") =>
           /\ NoDuplicates(visited')
           /\ Range(visited') = Reachable(walk.from)
    ]_vars

\* A walk over a cycle has ended: the starting crate is among the
\* descendants.
C28_Witness ==
  /\ walk.pc = "done"
  /\ walk.from \in Range(visited)
  /\ Len(visited) >= 2

\* ------------------------------------------------------------------------
\* C24: one edit of a package's manifest at a time
\* ------------------------------------------------------------------------

\* The path is the manifest of a package of the workspace.
IsPackageManifest(path) == \E n \in Members : ManifestPath(n) = path

\* No two edits of one package's manifest are reading or writing.
OneEditPerManifest ==
  \A i \in 1..Len(edits), j \in 1..Len(edits) :
    (i # j /\ InFlight(edits[i]) /\ InFlight(edits[j])
       /\ IsPackageManifest(edits[i].path))
      => edits[i].path # edits[j].path

\* A rejected call leaves both flags of every crate as they were.
RejectedLeavesFlags ==
  (StartsEdit /\ StartedEdit.pc = "reentrant")
    => /\ isUpdatingManifest' = isUpdatingManifest
       /\ isUpdatingRootManifest' = isUpdatingRootManifest

\* The flag of the given guard, through crate n.
FlagOf(guard, n) ==
  IF guard = "root" THEN isUpdatingRootManifest[n] ELSE isUpdatingManifest[n]

\* A flag is cleared only in the step in which the edit that set it stops
\* reading or writing.
ClearedByOwner ==
  \A n \in Names : \A guard \in {"manifest", "root"} :
    (FlagOf(guard, n) /\ ~FlagOf(guard, n)')
      => \E i \in 1..Len(edits) :
           /\ edits[i].via = n
           /\ edits[i].guard = guard
           /\ InFlight(edits[i])
           /\ ~InFlight(edits'[i])

\* C24: at every moment at most one edit of a given package's manifest is
\* between its read and its write; a call rejected by the reentrancy guard
\* leaves the in-flight flag set, and the flag is cleared only by the edit
\* that set it.
C24_OneEditPerManifest ==
  [][OneEditPerManifest' /\ RejectedLeavesFlags /\ ClearedByOwner]_vars

\* ------------------------------------------------------------------------
\* C25: a package the registry does not know
\* ------------------------------------------------------------------------

\* The registry has no record for the name.
NeverPublished(name) == ~registry[name].found

PublishReturnedForAll ==
  /\ Members \subseteq Range(publishCalls)
  /\ publishResult \in {"true", "false"}

\* With the tag in place the task publishes nothing and creates neither a
\* tag nor a release.
NothingOnExistingTag ==
  /\ tag' = "exists" =>
       (publishCalls' = <<>> /\ ~released' /\ registry' = registry)
  /\ tag = "exists" => tag' = "exists"

\* The release is created after the push of the tag, and not with
\* --skip-release.
ReleaseAfterPush ==
  /\ (released' /\ ~released) => (tag = "pushed" /\ cliArgs.release)
  /\ released' => tag' = "pushed"

\* C26, as stated: with the tag in place nothing is published, tagged or
\* released; otherwise the tag is created and pushed only after publish
\* has returned for every crate, and the release is created only after the
\* push and only without --skip-release.
C26_TagOnlyAfterPublish ==
  [][/\ NothingOnExistingTag
     /\ tag' \in {"created", "pushed"} => PublishReturnedForAll'
     /\ ReleaseAfterPush]_vars

\* C26, amended: the tag is created and pushed only after publish has
\* returned for every crate when --publish was given; without --publish
\* the tag is created and pushed with no call of publish at all.
C26_TagAfterPublishWhenAsked ==
  [][/\ NothingOnExistingTag
     /\ tag' \in {"created", "pushed"} =>
          IF cliArgs.publish THEN PublishReturnedForAll'
          ELSE publishCalls' = <<>>
     /\ ReleaseAfterPush]_vars

\* A release was created after two crates were published and the tag was
\* pushed.
C26_Witness ==
  /\ released
  /\ tag = "pushed"
  /\ cliArgs.publish
  /\ Len(publishCalls) >= 2
  /\ \E i \in 1..Len(publishCalls) : AtRegistry(publishCalls[i])

\* ------------------------------------------------------------------------
\* C27: two declarations on one package
\* ------------------------------------------------------------------------

\* The declarations with, for every name, only the first one on it.
RECURSIVE FirstDeclared(_)
FirstDeclared(dependencies) ==
  IF dependencies = <<>> THEN <<>>
  ELSE <<Head(dependencies)>>
         \o FirstDeclared(WithoutDeclarations(Tail(dependencies),
                                              Head(dependencies).name))

\* The workspace in which every package keeps its first declaration on
\* each name.
FirstDeclaredOnly ==
  [i \in 1..Len(crates) |->
     [crates[i] EXCEPT !.dependencies = FirstDeclared(crates[i].dependencies)]]

Reversed(s) == [i \in 1..Len(s) |-> s[Len(s) + 1 - i]]

\* The workspace with the declarations of every package in reverse order.
DeclaredInReverse ==
  [i \in 1..Len(crates) |->
     [crates[i] EXCEPT !.dependencies = Reversed(crates[i].dependencies)]]

\* C27: of several declarations of a package on the same workspace package
\* getCratesPublishOrder uses the first one only: a finished call has the
\* outcome, order or circular-dependency error, that it has on the
\* workspace in which every later declaration on the same package is
\* removed.
C27_FirstDeclarationDecides ==
  Finished => LastOutcome = GetCratesPublishOrder(FirstDeclaredOnly)

\* A package declares another one with both kinds, the call returned an
\* order, and with the declarations in the other order it fails.
C27_Witness ==
  /\ Finished
  /\ MixedKinds
  /\ LastOutcome.ok
  /\ ~GetCratesPublishOrder(DeclaredInReverse).ok

\* ------------------------------------------------------------------------
\* C30: the metadata cache
\* ------------------------------------------------------------------------

\* The calls of getMetadata for the name that issued a request.
Requests(name) ==
  {i \in 1..Len(lookups) : lookups[i].name = name /\ lookups[i].requested}

\* Those whose request was answered, with a record or with the status 404.
AnsweredRequests(name) == {i \in Requests(name) : ~lookups[i].threw}

First(S) == CHOOSE i \in S : \A j \in S : i <= j

\* C30, as stated: at most one request is issued per name, also for names
\* the registry does not know, and every call returns the result of the
\* first request for its name.
C30_OneRequestPerName ==
  /\ \A name \in Names : Cardinality(Requests(name)) <= 1
  /\ \A i \in 1..Len(lookups) :
       /\ ~lookups[i].threw
       /\ lookups[i].result = lookups[First(Requests(lookups[i].name))].result

\* C30, amended: at most one request per name is answered, also for names
\* the registry does not know; no request for the name follows it, and
\* every call that returns gives the result of that request. A rejected
\* request makes the call throw and is not kept.
C30_OneAnsweredRequestPerName ==
  /\ \A name \in Names :
       /\ Cardinality(AnsweredRequests(name)) <= 1
       /\ \A i \in Requests(name), j \in AnsweredRequests(name) : i <= j
       /\ metaDataCache[name].kind # "undefined" <=>
            AnsweredRequests(name) # {}
  /\ \A i \in 1..Len(lookups) :
       IF lookups[i].threw THEN lookups[i].requested
       ELSE LET first == First(AnsweredRequests(lookups[i].name))
            IN  /\ AnsweredRequests(lookups[i].name) # {}
                /\ first <= i
                /\ lookups[i].result = lookups[first].result

\* The first request for a name was rejected, the second was answered that
\* the name is unknown, and the third call returned undefined from the map
\* although the registry knows the name by then.
C30_Witness ==
  /\ Len(lookups) = 3
  /\ \A i \in 1..3 : lookups[i].name = lookups[1].name
  /\ lookups[1].threw
  /\ lookups[2].requested /\ ~lookups[2].threw
  /\ ~lookups[3].requested
  /\ lookups[3].result = Absent
  /\ registry[lookups[1].name].found

\* ------------------------------------------------------------------------
\* C29: the previous version tag
\* ------------------------------------------------------------------------

\* The tags of the repo that are versions lower than the version asked for.
LowerVersionTags ==
  {i \in 1..Len(gitTags) :
     /\ Len(gitTags[i].text) = 3
     /\ Compare(gitTags[i].text, previousTag.version) < 0}

Asked == previousTag # NotAsked /\ ~previousTag.threw

\* C29: getPreviousVersionTag returns the name of a version tag that is
\* lower than the given version and not lower than any other such tag;
\* it returns undefined exactly when no version tag is lower than the
\* given version, and never the name of a tag that is not a version.
C29_GreatestLowerVersionTag ==
  Asked =>
    /\ previousTag.name = <<>> <=> LowerVersionTags = {}
    /\ previousTag.name # <<>> =>
         \E i \in LowerVersionTags :
           /\ gitTags[i] = previousTag.name[1]
           /\ \A j \in LowerVersionTags :
                Compare(gitTags[j].text, gitTags[i].text) <= 0

\* The tag returned is neither the first nor the last, a tag that is no
\* version and a tag of the version asked for are passed over, and 0.10.0
\* counts as greater than 0.2.0.
C29_Witness ==
  /\ Asked
  /\ previousTag.version = <<1, 0, 0>>
  /\ Len(gitTags) = 3
  /\ gitTags[1].text = <<0, 2, 0>>
  /\ gitTags[2].text = <<0, 10, 0>>
  /\ gitTags[3].text = <<0, 1>>
  /\ previousTag.name = <<gitTags[2]>>

====
